---- MODULE Spec2Model ----
(***************************************************************************)
(* The invoice orchestrator of mcp-app-starter: the backend's submit       *)
(* handler and background routine, the in-memory progress registry, the    *)
(* SSE progress publisher, the cached billing client and the billing tool  *)
(* server.  One action is one run-to-completion segment of the single      *)
(* threaded event loop: a handler or a continuation runs from the event    *)
(* that starts it up to its next await.                                    *)
(***************************************************************************)
EXTENDS Integers, Sequences, FiniteSets, TLC

\* ------------------------------------------------------------------ bounds
NumOps == 2
NumSubs == 1
\* the counters of messages written on a subscription stop counting here
MaxCount == 2
\* how many tool calls a client makes of the billing server directly
MaxCalls == 3
\* how long an event log gets and how many finalising writes one id gets when
\* the registry is exercised alone
MaxLog == 3
MaxWrites == 2
\* how many subscriptions there are when one operation is watched by several
NumStreams == 2

OpIds == 1..NumOps
SubIds == 1..NumSubs
\* ids a subscriber may ask for: the minted ones and one that is never minted
FabricatedIds == {0}
StreamIds == OpIds \cup FabricatedIds

\* ------------------------------------------------------------------ inputs
Usd == <<"U", "S", "D">>
GoodEmail == <<"a", "@", "b", ".", "c">>
Eur == <<"E", "U", "R">>
OtherEmail == <<"x", "@", "y", ".", "z">>

\* request bodies a caller may post: one that satisfies the contract and one per
\* way of breaking it
Bodies ==
  { [amount |-> 100, currency |-> Usd, customer_email |-> GoodEmail],
    [amount |-> -1, currency |-> Usd, customer_email |-> GoodEmail],
    [amount |-> 100, currency |-> <<"U", "S">>, customer_email |-> GoodEmail],
    [amount |-> 100, currency |-> Usd, customer_email |-> <<"a", "b">>] }

\* what may go wrong with a tool call instead of the handler's answer
RemoteErrors ==
  { [code |-> -32603, message |-> "Internal error"],
    [code |-> -32000, message |-> ""] }

ConnectErrors == { [code |-> "ENOENT", message |-> "spawn node ENOENT"] }

\* ------------------------------------------------------------------ JSON
Stringify(v) == [json |-> v]
PlainText(s) == [raw |-> s]

Parse(t) ==
  IF "json" \in DOMAIN t
    THEN [ok |-> TRUE, value |-> t.json]
    ELSE [ok |-> FALSE, error |-> [name |-> "SyntaxError", message |-> "Unexpected token"]]

TextContent(t) == [type |-> "text", text |-> t]

\* ------------------------------------------------------------------ schemas.ts
\* faulty variant: the amount is not checked
AmountOkAny(a) == TRUE

AmountOk(a) == a >= 0

CurrencyOk(c) == Len(c) = 3

EmailOk(e) ==
  /\ Cardinality({i \in 1..Len(e) : e[i] = "@"}) = 1
  /\ \E i \in 2..Len(e) :
       /\ e[i] = "@"
       /\ \E j \in (i + 2)..(Len(e) - 1) : e[j] = "."

CreateInvoiceInput(body) ==
  /\ AmountOk(body.amount)
  /\ CurrencyOk(body.currency)
  /\ EmailOk(body.customer_email)

SafeParse(body) ==
  IF CreateInvoiceInput(body)
    THEN [success |-> TRUE, data |-> body]
    ELSE [success |-> FALSE, error |-> "flattened"]

\* ------------------------------------------------------------------ state
VARIABLES
  progress,        \* the registry: opId -> { done, events, result? }
  routine,         \* opId -> the background routine's position and locals
  clientPromise,   \* mcpClient.ts's cached promise
  transports,      \* how many StdioClientTransport were created
  channel,         \* opId -> the tool call in flight or its response
  invoices,        \* the billing server's store
  subs,            \* subId -> one SSE subscription
  http,            \* the submit handler's last request and response
  callLog,         \* opId -> the tool calls the routine issued, with the answers
  finalizations,   \* opId -> the finalising writes performed, in order
  unhandled,       \* the routines that ended with an uncaught error
  toolLog          \* the tool calls another client made of the billing server

vars ==
  << progress, routine, clientPromise, transports, channel, invoices, subs, http,
     callLog, finalizations, unhandled, toolLog >>

\* ------------------------------------------------------------------ registry
Has(f, k) == k \in DOMAIN f

Put(f, k, v) == (k :> v) @@ f

Remove(f, k) == [x \in DOMAIN f \ {k} |-> f[x]]

\* faulty variant: the entry is created with the first routine label already in the log
RegistryCreateEager == [done |-> FALSE, events |-> <<"received", "connecting-mcp">>]

\* faulty variant: the entry is created with an empty log
RegistryCreateEmpty == [done |-> FALSE, events |-> << >>]

\* progress.set(opId, { done: false, events: ["received"] })
RegistryCreate == [done |-> FALSE, events |-> <<"received">>]

\* faulty variant: new labels are put in front of the log
PushEventsFront(entry, labels) == [entry EXCEPT !.events = labels \o @]

\* progress.get(opId)!.events.push(label), for each label of a segment in turn
PushEvents(entry, labels) == [entry EXCEPT !.events = @ \o labels]

\* faulty variant: the finalising write starts a new log instead of copying the old one
FinalizeFreshLog(entry, result) == [done |-> TRUE, events |-> << >>, result |-> result]

\* progress.set(opId, { done: true, events: Array.from(...events), result })
Finalize(entry, result) == [done |-> TRUE, events |-> entry.events, result |-> result]

\* JSON null, the value stored when the fetch response has no content
JsNull == [null |-> TRUE]

\* { error: e?.message || "unknown" }
CatchPayload(e) == [error |-> IF e.message = "" THEN "unknown" ELSE e.message]

\* faulty variant: a token generator that may repeat a token
FreshIdsColliding(reg) == OpIds

\* nanoid(): a token no earlier submission got; tokens are opaque, so the next
\* unused one stands for any of them
FreshIds(reg) == {id \in OpIds \ DOMAIN reg : \A other \in OpIds \ DOMAIN reg : id <= other}

\* ------------------------------------------------------------------ mcpClient.ts
NoClient == [state |-> "null"]

\* faulty variant: only an established client is reused, not a pending promise
GetBillingClientUncached(cp, made) ==
  IF cp.state = "fulfilled"
    THEN [promise |-> cp, spawned |-> 0]
    ELSE [promise |-> [state |-> "pending", transport |-> made + 1], spawned |-> 1]

\* getBillingClient(), `made` transports having been created so far: the cached
\* promise, or a new one whose executor creates the next transport and starts
\* connecting
GetBillingClient(cp, made) ==
  IF cp.state # "null"
    THEN [promise |-> cp, spawned |-> 0]
    ELSE [promise |-> [state |-> "pending", transport |-> made + 1], spawned |-> 1]

\* ------------------------------------------------------------------ billing server
ToolInputOk(args) ==
  /\ args.amount >= 0
  /\ Len(args.currency) = 3
  /\ EmailOk(args.customer_email)

\* faulty variant: the handler stores the invoice without looking the key up
CreateInvoiceHandlerNoLookup(inv, args) ==
  [ invoices |-> Put(inv, args.idempotency_key,
      [ amount |-> args.amount, currency |-> args.currency,
        customer_email |-> args.customer_email, status |-> "draft" ]),
    content |-> << TextContent(Stringify(
      [invoice_id |-> args.idempotency_key, reused |-> FALSE])) >> ]

\* faulty variant: the handler answers without storing the invoice
CreateInvoiceHandlerForgets(inv, args) ==
  [ invoices |-> inv,
    content |-> << TextContent(Stringify(
      [invoice_id |-> args.idempotency_key, reused |-> Has(inv, args.idempotency_key)])) >> ]

\* faulty variant: a repeated call replaces the stored fields
CreateInvoiceHandlerOverwrites(inv, args) ==
  [ invoices |-> Put(inv, args.idempotency_key,
      [ amount |-> args.amount, currency |-> args.currency,
        customer_email |-> args.customer_email, status |-> "draft" ]),
    content |-> << TextContent(Stringify(
      [invoice_id |-> args.idempotency_key, reused |-> Has(inv, args.idempotency_key)])) >> ]

\* the billing.create_invoice handler
CreateInvoiceHandler(inv, args) ==
  IF Has(inv, args.idempotency_key)
    THEN [ invoices |-> inv,
           content |-> << TextContent(Stringify(
             [invoice_id |-> args.idempotency_key, reused |-> TRUE])) >> ]
    ELSE [ invoices |-> Put(inv, args.idempotency_key,
             [ amount |-> args.amount, currency |-> args.currency,
               customer_email |-> args.customer_email, status |-> "draft" ]),
           content |-> << TextContent(Stringify(
             [invoice_id |-> args.idempotency_key, reused |-> FALSE])) >> ]

\* faulty variant: the invoice is returned without the id it was asked under
GetInvoiceHandlerNoId(inv, args) ==
  IF ~Has(inv, args.invoice_id)
    THEN << TextContent(Stringify([error |-> "NOT_FOUND"])) >>
    ELSE << TextContent(Stringify([invoice |-> inv[args.invoice_id]])) >>

\* the billing.get_invoice handler
GetInvoiceHandler(inv, args) ==
  IF ~Has(inv, args.invoice_id)
    THEN << TextContent(Stringify([error |-> "NOT_FOUND"])) >>
    ELSE << TextContent(Stringify(
           [invoice |-> [ id |-> args.invoice_id,
                          amount |-> inv[args.invoice_id].amount,
                          currency |-> inv[args.invoice_id].currency,
                          customer_email |-> inv[args.invoice_id].customer_email,
                          status |-> inv[args.invoice_id].status ]])) >>

\* answers a tool call can get instead of its handler's: a protocol error, a
\* result with no content field, with empty content, or with text that is no JSON
Faults ==
  { [ok |-> FALSE, error |-> e] : e \in RemoteErrors } \cup
  { [ok |-> TRUE],
    [ok |-> TRUE, content |-> << >>],
    [ok |-> TRUE, content |-> << TextContent(PlainText("Invalid arguments")) >>] }

\* ------------------------------------------------------------------ background routine
\* faulty variant: every operation sends the same key
CreateRequestSharedKey(data, opId) ==
  [ method |-> "tools/call", name |-> "billing.create_invoice",
    arguments |-> [ amount |-> data.amount, currency |-> data.currency,
                    customer_email |-> data.customer_email,
                    idempotency_key |-> 1 ] ]

\* faulty variant: the key is not the operation's id
CreateRequestShiftedKey(data, opId) ==
  [ method |-> "tools/call", name |-> "billing.create_invoice",
    arguments |-> [ amount |-> data.amount, currency |-> data.currency,
                    customer_email |-> data.customer_email,
                    idempotency_key |-> opId + 1 ] ]

CreateRequest(data, opId) ==
  [ method |-> "tools/call", name |-> "billing.create_invoice",
    arguments |-> [ amount |-> data.amount, currency |-> data.currency,
                    customer_email |-> data.customer_email,
                    idempotency_key |-> opId ] ]

GetRequest(invId) ==
  [ method |-> "tools/call", name |-> "billing.get_invoice",
    arguments |-> [invoice_id |-> invId] ]

Throw(labels, e) == [outcome |-> "throw", pushed |-> labels, error |-> e]

Call(labels, req) == [outcome |-> "call", pushed |-> labels, request |-> req]

Finish(labels, r) == [outcome |-> "finish", pushed |-> labels, result |-> r]

\* the idempotency key a request carries, if it carries one
KeysOf(req) ==
  IF Has(req.arguments, "idempotency_key") THEN << req.arguments.idempotency_key >> ELSE << >>

\* faulty variant: the create call is issued without a progress event
ClientStepSilent(cp, data, opId) ==
  IF cp.state = "rejected"
    THEN Throw(<< >>, cp.error)
    ELSE Call(<< >>, CreateRequest(data, opId))

\* faulty variant: the progress event is appended before the connection is awaited
ClientStepLogsFirst(cp, data, opId) ==
  IF cp.state = "rejected"
    THEN Throw(<< "connecting-mcp" >>, cp.error)
    ELSE Call(<< "connecting-mcp" >>, CreateRequest(data, opId))

\* from `await getBillingClient()` to the create call
ClientStep(cp, data, opId) ==
  IF cp.state = "rejected"
    THEN Throw(<< >>, cp.error)
    ELSE Call(<< "connecting-mcp" >>, CreateRequest(data, opId))

\* faulty variant: a rejected create call is not treated as a failure
CreateStepIgnoresError(resp) ==
  IF ~resp.ok \/ ~Has(resp, "content") \/ Len(resp.content) = 0
    THEN Call(<< "invoice-created" >>, GetRequest(0))
    ELSE LET parsed == Parse(resp.content[1].text) IN
      IF ~parsed.ok
        THEN Call(<< "invoice-created" >>, GetRequest(0))
        ELSE Call(<< "invoice-created" >>, GetRequest(parsed.value.invoice_id))

\* faulty variant: the invoice to fetch is not taken from the create answer
CreateStepFixedInvoice(resp) ==
  IF ~resp.ok
    THEN Throw(<< >>, resp.error)
    ELSE IF ~Has(resp, "content") \/ Len(resp.content) = 0
      THEN Throw(<< "invoice-created" >>, [message |-> "MCP error creating invoice"])
      ELSE LET parsed == Parse(resp.content[1].text) IN
        IF ~parsed.ok
          THEN Throw(<< "invoice-created" >>, parsed.error)
          ELSE Call(<< "invoice-created" >>, GetRequest(1))

\* from the create call's answer to the fetch call
CreateStep(resp) ==
  IF ~resp.ok
    THEN Throw(<< >>, resp.error)
    ELSE IF ~Has(resp, "content") \/ Len(resp.content) = 0
      THEN Throw(<< "invoice-created" >>, [message |-> "MCP error creating invoice"])
      ELSE LET parsed == Parse(resp.content[1].text) IN
        IF ~parsed.ok
          THEN Throw(<< "invoice-created" >>, parsed.error)
          ELSE Call(<< "invoice-created" >>, GetRequest(parsed.value.invoice_id))

\* faulty variant: the operation is finalised with what the create call returned
GetStepKeepsCreatePayload(resp) ==
  IF ~resp.ok
    THEN Throw(<< >>, resp.error)
    ELSE IF ~Has(resp, "content")
      THEN Finish(<< "invoice-fetched" >>, JsNull)
      ELSE IF Len(resp.content) = 0
        THEN Throw(<< "invoice-fetched" >>,
                   [name |-> "TypeError", message |-> "Cannot read properties of undefined"])
        ELSE LET parsed == Parse(resp.content[1].text) IN
          IF ~parsed.ok
            THEN Throw(<< "invoice-fetched" >>, parsed.error)
            ELSE IF Has(parsed.value, "invoice")
              THEN Finish(<< "invoice-fetched" >>,
                          [invoice_id |-> parsed.value.invoice.id, reused |-> FALSE])
              ELSE Finish(<< "invoice-fetched" >>, parsed.value)

\* faulty variant: a rejected fetch call is issued again
GetStepRetries(resp) ==
  IF ~resp.ok
    THEN Call(<< >>, GetRequest(0))
    ELSE IF ~Has(resp, "content")
      THEN Finish(<< "invoice-fetched" >>, JsNull)
      ELSE IF Len(resp.content) = 0
        THEN Throw(<< "invoice-fetched" >>,
                   [name |-> "TypeError", message |-> "Cannot read properties of undefined"])
        ELSE LET parsed == Parse(resp.content[1].text) IN
          IF ~parsed.ok
            THEN Throw(<< "invoice-fetched" >>, parsed.error)
            ELSE Finish(<< "invoice-fetched" >>, parsed.value)

\* from the fetch call's answer to the finalising write
GetStep(resp) ==
  IF ~resp.ok
    THEN Throw(<< >>, resp.error)
    ELSE IF ~Has(resp, "content")
      THEN Finish(<< "invoice-fetched" >>, JsNull)
      ELSE IF Len(resp.content) = 0
        THEN Throw(<< "invoice-fetched" >>,
                   [name |-> "TypeError", message |-> "Cannot read properties of undefined"])
        ELSE LET parsed == Parse(resp.content[1].text) IN
          IF ~parsed.ok
            THEN Throw(<< "invoice-fetched" >>, parsed.error)
            ELSE Finish(<< "invoice-fetched" >>, parsed.value)

\* where the routine waits after issuing a call
AwaitOf(req) == IF req.name = "billing.create_invoice" THEN "awaitCreate" ELSE "awaitGet"

\* faulty variant: the catch block records nothing
EntryAfterSwallow(entry, step) ==
  CASE step.outcome = "call" -> PushEvents(entry, step.pushed)
    [] step.outcome = "finish" -> Finalize(PushEvents(entry, step.pushed), step.result)
    [] step.outcome = "throw" -> PushEvents(entry, step.pushed)

\* faulty variant: the last event is appended but the operation is not finalised
EntryAfterPushOnly(entry, step) ==
  CASE step.outcome = "call" -> PushEvents(entry, step.pushed)
    [] step.outcome = "finish" -> PushEvents(entry, step.pushed)
    [] step.outcome = "throw" ->
         Finalize(PushEvents(entry, step.pushed), CatchPayload(step.error))

\* the registry entry a segment leaves behind
EntryAfter(entry, step) ==
  CASE step.outcome = "call" -> PushEvents(entry, step.pushed)
    [] step.outcome = "finish" -> Finalize(PushEvents(entry, step.pushed), step.result)
    [] step.outcome = "throw" ->
         Finalize(PushEvents(entry, step.pushed), CatchPayload(step.error))

\* one segment of the routine of `id`, which consumed the answers `got` and ends
\* at the next await or at the end of the routine
RunSegment(id, step, got) ==
  /\ IF Has(progress, id)
       THEN /\ progress' = Put(progress, id, EntryAfter(progress[id], step))
            /\ unhandled' = unhandled
       ELSE /\ progress' = progress
            /\ unhandled' = unhandled \cup {id}
  /\ IF step.outcome = "call"
       THEN /\ channel' = Put(channel, id, [dir |-> "req", msg |-> step.request])
            /\ routine' = [routine EXCEPT ![id].pc = AwaitOf(step.request)]
            /\ callLog' = [callLog EXCEPT ![id].issued = Append(@, step.request.name),
                                          ![id].keys = @ \o KeysOf(step.request),
                                          ![id].answers = @ \o got]
            /\ finalizations' = finalizations
       ELSE /\ channel' = Remove(channel, id)
            /\ routine' = [routine EXCEPT ![id].pc = "ended"]
            /\ callLog' = [callLog EXCEPT ![id].answers = @ \o got]
            /\ finalizations' =
                 [finalizations EXCEPT ![id] =
                    Append(@, IF step.outcome = "finish" THEN "success" ELSE "error")]

\* ------------------------------------------------------------------ publisher
NoMsg == [type |-> "none"]

Ping == [type |-> "ping"]

\* faulty variant: a progress message shows only the first event of the log
ProgressMsgFirstOnly(p) ==
  [type |-> "progress", events |-> SubSeq(p.events, 1, 1), done |-> p.done]

ProgressMsg(p) == [type |-> "progress", events |-> p.events, done |-> p.done]

\* faulty variant: an error payload is replaced by a generic failure notice
ResultMsgHidesError(p) ==
  [ type |-> "result",
    data |-> IF Has(p, "result") /\ ~Has(p.result, "error")
               THEN p.result
               ELSE [status |-> "failed"] ]

\* JSON.stringify(p.result) of an entry; an entry without result gives undefined
ResultMsg(p) ==
  [type |-> "result", data |-> IF Has(p, "result") THEN p.result ELSE [undefined |-> TRUE]]

\* res.write(msg): of the stream written so far the subscription keeps the last
\* message, the last progress message, the number of progress messages, the number
\* of result messages and the number of progress messages written after a result
\* message
SseWrite(sub, msg) ==
  [ sub EXCEPT
      !.last = msg,
      !.shown = IF msg.type = "progress" THEN msg ELSE @,
      !.progressed = IF msg.type = "progress" /\ @ < MaxCount THEN @ + 1 ELSE @,
      !.results = IF msg.type = "result" /\ @ < MaxCount THEN @ + 1 ELSE @,
      !.late = IF msg.type = "progress" /\ sub.results > 0 /\ @ < MaxCount THEN @ + 1 ELSE @ ]

\* app.get("/api/stream/:opId") up to setInterval
OpenStream(opId) ==
  [ opId |-> opId, timer |-> TRUE, closed |-> "no",
    last |-> Ping, shown |-> NoMsg, progressed |-> 0, results |-> 0, late |-> 0,
    fired |-> "none" ]

\* faulty variant: the interval is not cleared after the result message
TickStepKeepsTimer(sub, reg) ==
  IF ~Has(reg, sub.opId)
    THEN [sub EXCEPT !.fired = "skip"]
    ELSE LET p == reg[sub.opId]
             w == SseWrite(sub, ProgressMsg(p))
         IN  IF p.done
               THEN [SseWrite(w, ResultMsg(p)) EXCEPT !.closed = "server", !.fired = "result"]
               ELSE [w EXCEPT !.fired = "progress"]

\* faulty variant: the result message is written without the progress message
TickStepResultOnly(sub, reg) ==
  IF ~Has(reg, sub.opId)
    THEN [sub EXCEPT !.fired = "skip"]
    ELSE LET p == reg[sub.opId] IN
      IF p.done
        THEN [ SseWrite(sub, ResultMsg(p)) EXCEPT
                 !.timer = FALSE, !.closed = "server", !.fired = "result" ]
        ELSE [SseWrite(sub, ProgressMsg(p)) EXCEPT !.fired = "progress"]

\* one firing of the interval callback
TickStep(sub, reg) ==
  IF ~Has(reg, sub.opId)
    THEN [sub EXCEPT !.fired = "skip"]
    ELSE LET p == reg[sub.opId]
             w == SseWrite(sub, ProgressMsg(p))
         IN  IF p.done
               THEN [ SseWrite(w, ResultMsg(p)) EXCEPT
                        !.timer = FALSE, !.closed = "server", !.fired = "result" ]
               ELSE [w EXCEPT !.fired = "progress"]

\* ------------------------------------------------------------------ actions
Init ==
  /\ progress = << >>
  /\ routine = << >>
  /\ clientPromise = NoClient
  /\ transports = 0
  /\ channel = << >>
  /\ invoices = << >>
  /\ subs = << >>
  /\ http = [status |-> 0]
  /\ callLog = [id \in OpIds |-> [issued |-> << >>, keys |-> << >>, answers |-> << >>]]
  /\ finalizations = [id \in OpIds |-> << >>]
  /\ unhandled = {}
  /\ toolLog = << >>

\* POST /api/invoices with a body that fails the contract: 400
SubmitRejected(body) ==
  /\ ~SafeParse(body).success
  /\ http' = [status |-> 400, req |-> body, error |-> SafeParse(body).error]
  /\ UNCHANGED << progress, routine, clientPromise, transports, channel, invoices,
                  subs, callLog, finalizations, unhandled, toolLog >>

\* POST /api/invoices with a valid body: mint the id, create the entry, run the
\* routine up to `await getBillingClient()`, answer 202
SubmitAccepted(body, opId) ==
  /\ SafeParse(body).success
  /\ opId \in FreshIds(progress)
  /\ progress' = Put(progress, opId, RegistryCreate)
  /\ routine' = Put(routine, opId,
       [ pc |-> "awaitClient", data |-> SafeParse(body).data,
         client |-> GetBillingClient(clientPromise, transports).promise.transport ])
  /\ clientPromise' = GetBillingClient(clientPromise, transports).promise
  /\ transports' = transports + GetBillingClient(clientPromise, transports).spawned
  /\ http' = [status |-> 202, req |-> body, opId |-> opId]
  /\ callLog' = [callLog EXCEPT ![opId] = [issued |-> << >>, keys |-> << >>, answers |-> << >>]]
  /\ finalizations' = finalizations
  /\ UNCHANGED << channel, invoices, subs, unhandled, toolLog >>

\* client.connect(transport) succeeds: resolve(client)
ConnectOk ==
  /\ clientPromise.state = "pending"
  /\ clientPromise' = [state |-> "fulfilled", transport |-> clientPromise.transport]
  /\ UNCHANGED << progress, routine, transports, channel, invoices, subs, http,
                  callLog, finalizations, unhandled, toolLog >>

\* client.connect(transport) fails: reject(e)
ConnectFail(e) ==
  /\ clientPromise.state = "pending"
  /\ clientPromise' = [state |-> "rejected", error |-> e, transport |-> clientPromise.transport]
  /\ UNCHANGED << progress, routine, transports, channel, invoices, subs, http,
                  callLog, finalizations, unhandled, toolLog >>

\* faulty variant: a routine goes on only while no other operation has a call in flight
ResumeClientSerialised(id) ==
  /\ Has(routine, id)
  /\ routine[id].pc = "awaitClient"
  /\ clientPromise.state \in {"fulfilled", "rejected"}
  /\ \A other \in DOMAIN channel : other = id
  /\ RunSegment(id, ClientStep(clientPromise, routine[id].data, id), << >>)
  /\ UNCHANGED << clientPromise, transports, invoices, subs, http, toolLog >>

\* the routine resumes after `await getBillingClient()`
ResumeClient(id) ==
  /\ Has(routine, id)
  /\ routine[id].pc = "awaitClient"
  /\ clientPromise.state \in {"fulfilled", "rejected"}
  /\ RunSegment(id, ClientStep(clientPromise, routine[id].data, id), << >>)
  /\ UNCHANGED << clientPromise, transports, invoices, subs, http, toolLog >>

\* the billing server runs the handler of the call in flight and answers
ServerCreate(id) ==
  /\ Has(channel, id)
  /\ channel[id].dir = "req"
  /\ channel[id].msg.name = "billing.create_invoice"
  /\ ToolInputOk(channel[id].msg.arguments)
  /\ LET r == CreateInvoiceHandler(invoices, channel[id].msg.arguments) IN
       /\ invoices' = r.invoices
       /\ channel' = Put(channel, id, [dir |-> "resp", msg |-> [ok |-> TRUE, content |-> r.content]])
  /\ UNCHANGED << progress, routine, clientPromise, transports, subs, http,
                  callLog, finalizations, unhandled, toolLog >>

ServerGet(id) ==
  /\ Has(channel, id)
  /\ channel[id].dir = "req"
  /\ channel[id].msg.name = "billing.get_invoice"
  /\ channel' = Put(channel, id,
       [ dir |-> "resp",
         msg |-> [ok |-> TRUE, content |-> GetInvoiceHandler(invoices, channel[id].msg.arguments)] ])
  /\ UNCHANGED << progress, routine, clientPromise, transports, invoices, subs, http,
                  callLog, finalizations, unhandled, toolLog >>

\* the call in flight is answered with a fault instead
ToolFault(id, f) ==
  /\ Has(channel, id)
  /\ channel[id].dir = "req"
  /\ channel' = Put(channel, id, [dir |-> "resp", msg |-> f])
  /\ UNCHANGED << progress, routine, clientPromise, transports, invoices, subs, http,
                  callLog, finalizations, unhandled, toolLog >>

\* the routine resumes after the create call
ResumeCreate(id) ==
  /\ Has(routine, id)
  /\ routine[id].pc = "awaitCreate"
  /\ Has(channel, id)
  /\ channel[id].dir = "resp"
  /\ RunSegment(id, CreateStep(channel[id].msg), << channel[id].msg >>)
  /\ UNCHANGED << clientPromise, transports, invoices, subs, http, toolLog >>

\* the routine resumes after the fetch call
ResumeGet(id) ==
  /\ Has(routine, id)
  /\ routine[id].pc = "awaitGet"
  /\ Has(channel, id)
  /\ channel[id].dir = "resp"
  /\ RunSegment(id, GetStep(channel[id].msg), << channel[id].msg >>)
  /\ UNCHANGED << clientPromise, transports, invoices, subs, http, toolLog >>

\* GET /api/stream/:opId
Subscribe(s, opId) ==
  /\ ~Has(subs, s)
  /\ subs' = Put(subs, s, OpenStream(opId))
  /\ UNCHANGED << progress, routine, clientPromise, transports, channel, invoices, http,
                  callLog, finalizations, unhandled, toolLog >>

\* faulty variant: the publisher drops an operation once it has sent its result
TickEvicts(s) ==
  /\ Has(subs, s)
  /\ subs[s].timer
  /\ subs' = [subs EXCEPT ![s] = TickStep(subs[s], progress)]
  /\ progress' = IF Has(progress, subs[s].opId) /\ progress[subs[s].opId].done
                   THEN Remove(progress, subs[s].opId)
                   ELSE progress
  /\ UNCHANGED << routine, clientPromise, transports, channel, invoices, http,
                  callLog, finalizations, unhandled, toolLog >>

\* the interval of a subscription fires
Tick(s) ==
  /\ Has(subs, s)
  /\ subs[s].timer
  /\ subs' = [subs EXCEPT ![s] = TickStep(subs[s], progress)]
  /\ UNCHANGED << progress, routine, clientPromise, transports, channel, invoices, http,
                  callLog, finalizations, unhandled, toolLog >>

\* faulty variant: the close handler does not clear the interval
DisconnectKeepsTimer(s) ==
  /\ Has(subs, s)
  /\ subs[s].closed = "no"
  /\ subs' = [subs EXCEPT ![s].closed = "client"]
  /\ UNCHANGED << progress, routine, clientPromise, transports, channel, invoices, http,
                  callLog, finalizations, unhandled, toolLog >>

\* faulty variant: one interval is shared by the subscriptions to an operation
DisconnectStopsAll(s) ==
  /\ Has(subs, s)
  /\ subs[s].closed = "no"
  /\ subs' = [t \in DOMAIN subs |->
                IF t = s
                  THEN [subs[t] EXCEPT !.timer = FALSE, !.closed = "client"]
                  ELSE IF subs[t].opId = subs[s].opId
                    THEN [subs[t] EXCEPT !.timer = FALSE]
                    ELSE subs[t]]
  /\ UNCHANGED << progress, routine, clientPromise, transports, channel, invoices, http,
                  callLog, finalizations, unhandled, toolLog >>

\* req.on("close") when the subscriber goes away (the close that follows
\* res.end() finds the interval cleared and changes nothing)
Disconnect(s) ==
  /\ Has(subs, s)
  /\ subs[s].closed = "no"
  /\ subs' = [subs EXCEPT ![s].timer = FALSE, ![s].closed = "client"]
  /\ UNCHANGED << progress, routine, clientPromise, transports, channel, invoices, http,
                  callLog, finalizations, unhandled, toolLog >>

Next ==
  \/ \E body \in Bodies : SubmitRejected(body)
  \/ \E body \in Bodies, opId \in OpIds : SubmitAccepted(body, opId)
  \/ ConnectOk
  \/ \E e \in ConnectErrors : ConnectFail(e)
  \/ \E id \in OpIds : ResumeClient(id)
  \/ \E id \in OpIds : ServerCreate(id)
  \/ \E id \in OpIds : ServerGet(id)
  \/ \E id \in OpIds, f \in Faults : ToolFault(id, f)
  \/ \E id \in OpIds : ResumeCreate(id)
  \/ \E id \in OpIds : ResumeGet(id)
  \/ \E s \in SubIds, opId \in StreamIds : Subscribe(s, opId)
  \/ \E s \in SubIds : Tick(s)
  \/ \E s \in SubIds : Disconnect(s)

Spec == Init /\ [][Next]_vars

\* ------------------------------------------------------------------ billing server alone
\* arguments a client may pass to billing.create_invoice: two amounts, currencies
\* and addresses under each key, and one that the input schema refuses
ToolArgs ==
  { [amount |-> a, currency |-> c, customer_email |-> e, idempotency_key |-> k] :
      a \in {0, 100}, c \in {Usd, Eur}, e \in {GoodEmail, OtherEmail}, k \in OpIds } \cup
  { [amount |-> -1, currency |-> Usd, customer_email |-> GoodEmail, idempotency_key |-> k] :
      k \in OpIds }

\* tools/call billing.create_invoice, made of the server directly
ToolCreate(args) ==
  /\ Len(toolLog) < MaxCalls
  /\ LET r == IF ToolInputOk(args)
                THEN CreateInvoiceHandler(invoices, args)
                ELSE [ invoices |-> invoices,
                       content |-> << TextContent(PlainText("Invalid arguments")) >> ]
     IN  /\ invoices' = r.invoices
         /\ toolLog' = Append(toolLog,
              [ name |-> "billing.create_invoice", arguments |-> args,
                content |-> r.content, before |-> invoices, after |-> r.invoices ])
  /\ UNCHANGED << progress, routine, clientPromise, transports, channel, subs, http,
                  callLog, finalizations, unhandled >>

\* tools/call billing.get_invoice, made of the server directly
ToolGet(invId) ==
  /\ Len(toolLog) < MaxCalls
  /\ toolLog' = Append(toolLog,
       [ name |-> "billing.get_invoice", arguments |-> [invoice_id |-> invId],
         content |-> GetInvoiceHandler(invoices, [invoice_id |-> invId]),
         before |-> invoices, after |-> invoices ])
  /\ UNCHANGED << progress, routine, clientPromise, transports, channel, invoices, subs,
                  http, callLog, finalizations, unhandled >>

ToolNext ==
  \/ \E args \in ToolArgs : ToolCreate(args)
  \/ \E invId \in StreamIds : ToolGet(invId)

ToolSpec == Init /\ [][ToolNext]_vars

\* ------------------------------------------------------------------ registry alone
\* the writes the backend makes to the progress map, made for any token nanoid may
\* return and in any order: the map itself refuses none of them
RegLabels == {"connecting-mcp", "invoice-created", "invoice-fetched"}

RegResults == { [error |-> "unknown"], [invoice |-> [id |-> 1]] }

\* progress.set(opId, { done: false, events: ["received"] })
RegSet(id) ==
  /\ progress' = Put(progress, id, RegistryCreate)
  /\ UNCHANGED << routine, clientPromise, transports, channel, invoices, subs, http,
                  callLog, finalizations, unhandled, toolLog >>

\* progress.get(opId)!.events.push(label)
RegPush(id, label) ==
  /\ Has(progress, id)
  /\ Len(progress[id].events) < MaxLog
  /\ progress' = Put(progress, id, PushEvents(progress[id], << label >>))
  /\ UNCHANGED << routine, clientPromise, transports, channel, invoices, subs, http,
                  callLog, finalizations, unhandled, toolLog >>

\* progress.set(opId, { done: true, events: Array.from(...), result })
RegFinalize(id, result) ==
  /\ Has(progress, id)
  /\ Len(finalizations[id]) < MaxWrites
  /\ progress' = Put(progress, id, Finalize(progress[id], result))
  /\ finalizations' =
       [finalizations EXCEPT ![id] =
          Append(@, IF Has(result, "error") THEN "error" ELSE "success")]
  /\ UNCHANGED << routine, clientPromise, transports, channel, invoices, subs, http,
                  callLog, unhandled, toolLog >>

RegNext ==
  \/ \E id \in OpIds : RegSet(id)
  \/ \E id \in OpIds, label \in RegLabels : RegPush(id, label)
  \/ \E id \in OpIds, result \in RegResults : RegFinalize(id, result)

RegistrySpec == Init /\ [][RegNext]_vars

\* ------------------------------------------------------------------ one operation, several streams
StreamSubs == 1..NumStreams

\* the id the first submission gets
StreamOp == CHOOSE id \in FreshIds(<< >>) : TRUE

\* one submission and its routine, watched by several subscriptions
StreamNext ==
  \/ \E body \in Bodies : SubmitAccepted(body, StreamOp)
  \/ ConnectOk
  \/ \E e \in ConnectErrors : ConnectFail(e)
  \/ ResumeClient(StreamOp)
  \/ ServerCreate(StreamOp)
  \/ ServerGet(StreamOp)
  \/ \E f \in Faults : ToolFault(StreamOp, f)
  \/ ResumeCreate(StreamOp)
  \/ ResumeGet(StreamOp)
  \/ \E s \in StreamSubs : Subscribe(s, StreamOp)
  \/ \E s \in StreamSubs : Tick(s)
  \/ \E s \in StreamSubs : Disconnect(s)

StreamSpec == Init /\ [][StreamNext]_vars

\* the event loop runs every continuation that is ready and every timer that is
\* due; the tool server answers the calls it receives; a connection attempt ends
Fairness ==
  /\ \A id \in OpIds :
       /\ WF_vars(ResumeClient(id))
       /\ WF_vars(ResumeCreate(id))
       /\ WF_vars(ResumeGet(id))
       /\ WF_vars(ServerCreate(id))
       /\ WF_vars(ServerGet(id))
  /\ WF_vars(ConnectOk \/ \E e \in ConnectErrors : ConnectFail(e))
  /\ \A s \in SubIds : WF_vars(Tick(s))

FairSpec == Spec /\ Fairness

\* ------------------------------------------------------------------ properties
IsDone(id) == Has(progress, id) /\ progress[id].done

IsPrefix(a, b) == Len(a) <= Len(b) /\ SubSeq(b, 1, Len(a)) = a

\* C1: at the moment the submit handler answers 202 with an operation id, the
\* operation is in the registry, PENDING, with event log exactly ["received"] and no
\* result, and its routine has issued no tool call yet.
C1_SubmitReturnsWhilePending ==
  [][ (http' # http /\ http'.status = 202) =>
        /\ Has(progress', http'.opId)
        /\ ~progress'[http'.opId].done
        /\ progress'[http'.opId].events = << "received" >>
        /\ ~Has(progress'[http'.opId], "result")
        /\ routine'[http'.opId].pc = "awaitClient"
        /\ callLog'[http'.opId].issued = << >> ]_vars

C1_Witness ==
  /\ http.status = 202
  /\ routine[http.opId].pc = "awaitClient"
  /\ ~progress[http.opId].done

\* C2: every operation in the registry eventually becomes DONE, whatever goes wrong
\* inside its routine, and no routine ends with an uncaught error.
C2_EveryOperationFinalised ==
  /\ \A id \in OpIds : Has(progress, id) ~> IsDone(id)
  /\ [](unhandled = {})

C2_Witness ==
  \E id \in OpIds :
    /\ IsDone(id)
    /\ finalizations[id] = << "error" >>
    /\ Len(callLog[id].answers) = 2
    /\ callLog[id].answers[2].ok
    /\ Has(callLog[id].answers[2], "content")
    /\ Len(callLog[id].answers[2].content) = 1
    /\ Has(callLog[id].answers[2].content[1].text, "raw")

\* C3: once an operation is DONE it stays DONE with the same result, and at most one
\* finalising write (success or error, never both) is performed for it.
C3_DoneIsFinal ==
  /\ [][ \A id \in DOMAIN progress :
           progress[id].done =>
             /\ Has(progress', id)
             /\ progress'[id].done
             /\ progress'[id].result = progress[id].result ]_vars
  /\ [](\A id \in OpIds : Len(finalizations[id]) <= 1)

C3_Witness ==
  \E a, b \in OpIds :
    /\ a # b
    /\ IsDone(a)
    /\ finalizations[a] = << "success" >>
    /\ IsDone(b)
    /\ finalizations[b] = << "error" >>

\* C4: a subscription to an existing operation that the subscriber keeps open
\* eventually gets its result message; no subscription gets more than one result
\* message or a progress message after it.
C4_OneTerminalResult ==
  /\ [](\A s \in DOMAIN subs : subs[s].results <= 1 /\ subs[s].late = 0)
  /\ \A s \in SubIds, id \in OpIds :
       (Has(subs, s) /\ subs[s].opId = id /\ Has(progress, id))
         ~> (Has(subs, s) /\ (subs[s].results = 1 \/ subs[s].closed = "client"))

C4_Witness ==
  \E s \in DOMAIN subs :
    /\ subs[s].results = 1
    /\ subs[s].last.type = "result"
    /\ subs[s].closed = "server"
    /\ ~subs[s].timer

\* C5 (as claimed): a subscription whose interval fired while its id was unknown
\* has been given a terminal message and closed by the publisher.
C5_UnknownIdGetsTerminal ==
  \A s \in DOMAIN subs :
    (subs[s].fired = "skip" /\ ~Has(progress, subs[s].opId)) =>
      (subs[s].closed = "server" /\ subs[s].last.type \in {"result", "error"})

\* C6: every step leaves each operation in the registry and its event log either
\* unchanged or longer by exactly one label at the end.
C6_EventLogAppendOnly ==
  [][ \A id \in DOMAIN progress :
        /\ Has(progress', id)
        /\ IsPrefix(progress[id].events, progress'[id].events)
        /\ Len(progress'[id].events) <= Len(progress[id].events) + 1 ]_vars

C6_Witness ==
  \E id \in OpIds :
    /\ IsDone(id)
    /\ progress[id].events =
         << "received", "connecting-mcp", "invoice-created", "invoice-fetched" >>

\* C7 (as claimed): a PENDING operation has no result; a DONE operation has one, and
\* it is an invoice payload or a payload with a non-empty error message, never null.
C7_ResultIffDone ==
  \A id \in DOMAIN progress :
    /\ ~progress[id].done => ~Has(progress[id], "result")
    /\ progress[id].done =>
         /\ Has(progress[id], "result")
         /\ \/ Has(progress[id].result, "invoice")
            \/ Has(progress[id].result, "error") /\ progress[id].result.error # ""

\* the input contract as the claim words it
C8_FailsContract(body) ==
  \/ body.amount < 0
  \/ Len(body.currency) # 3
  \/ ~EmailOk(body.customer_email)

\* C8: a submission that fails the contract is answered 400 with a structured error
\* and no operation id, and changes neither the registry, the routines, the
\* connection, the calls in flight nor the invoice store.
C8_RejectedSubmissionHasNoEffect ==
  [][ (http' # http /\ C8_FailsContract(http'.req)) =>
        /\ http'.status = 400
        /\ Has(http', "error")
        /\ ~Has(http', "opId")
        /\ UNCHANGED << progress, routine, clientPromise, transports, channel,
                        invoices, callLog, finalizations >> ]_vars

C8_Witness ==
  /\ http.status = 400
  /\ http.req.amount < 0
  /\ \E id \in OpIds : Has(routine, id) /\ routine[id].pc = "awaitCreate"

\* an answer that reports a failure of the call
C9_Failed(resp) ==
  \/ ~resp.ok
  \/ ~Has(resp, "content")
  \/ Len(resp.content) = 0
  \/ Has(resp.content[1].text, "raw")

\* C9: an operation whose create call failed has ended without issuing a fetch call.
C9_NoFetchAfterFailedCreate ==
  \A id \in OpIds :
    (Len(callLog[id].answers) >= 1 /\ C9_Failed(callLog[id].answers[1])) =>
      /\ callLog[id].issued = << "billing.create_invoice" >>
      /\ routine[id].pc = "ended"
      /\ IsDone(id)

C9_Witness ==
  \E id \in OpIds :
    /\ Len(callLog[id].answers) = 1
    /\ ~callLog[id].answers[1].ok
    /\ IsDone(id)

\* C10 (as claimed): the terminal payload of an operation whose call was rejected
\* with a remote error carries that error's code and its message unmodified.
C10_RemoteErrorVerbatim ==
  \A id \in OpIds :
    (IsDone(id) /\ callLog[id].answers # << >>
       /\ ~callLog[id].answers[Len(callLog[id].answers)].ok) =>
      LET e == callLog[id].answers[Len(callLog[id].answers)].error
          r == progress[id].result
      IN  /\ Has(r, "code") /\ r.code = e.code
          /\ \/ Has(r, "message") /\ r.message = e.message
             \/ Has(r, "error") /\ r.error = e.message

\* the answer of a logged tool call, parsed
ToolAnswer(call) == Parse(call.content[1].text).value

\* a logged create call that the input schema accepted
IsCreate(call) == call.name = "billing.create_invoice" /\ ToolInputOk(call.arguments)

\* C11: of the create calls made with one idempotency key, the first is answered
\* reused=false and every later one reused=true with the same invoice id, and a
\* later one leaves the number of stored invoices as it was.
C11_CreateIsIdempotent ==
  \A i, j \in 1..Len(toolLog) :
    ( /\ i < j
      /\ IsCreate(toolLog[i])
      /\ IsCreate(toolLog[j])
      /\ toolLog[i].arguments.idempotency_key = toolLog[j].arguments.idempotency_key
      /\ \A h \in 1..(i - 1) :
           IsCreate(toolLog[h]) =>
             toolLog[h].arguments.idempotency_key # toolLog[i].arguments.idempotency_key ) =>
      /\ ToolAnswer(toolLog[i]).reused = FALSE
      /\ ToolAnswer(toolLog[j]).reused = TRUE
      /\ ToolAnswer(toolLog[j]).invoice_id = ToolAnswer(toolLog[i]).invoice_id
      /\ Cardinality(DOMAIN toolLog[j].after) = Cardinality(DOMAIN toolLog[j].before)

C11_Witness ==
  /\ Len(toolLog) >= 2
  /\ IsCreate(toolLog[1])
  /\ IsCreate(toolLog[2])
  /\ toolLog[1].arguments.idempotency_key = toolLog[2].arguments.idempotency_key
  /\ ToolAnswer(toolLog[2]).reused = TRUE
  /\ Cardinality(DOMAIN invoices) = 1

\* C12 (as claimed): when the same request was submitted twice and both operations
\* ended with a payload of the fetch call, the tool server holds one invoice and the
\* second operation's payload says reused.
C12_ResubmissionIsReused ==
  \A a, b \in OpIds :
    ( /\ a < b
      /\ Has(routine, a)
      /\ Has(routine, b)
      /\ routine[a].data = routine[b].data
      /\ finalizations[a] = << "success" >>
      /\ finalizations[b] = << "success" >>
      /\ Has(progress[a].result, "invoice")
      /\ Has(progress[b].result, "invoice") ) =>
      /\ Cardinality(DOMAIN invoices) = 1
      /\ Has(progress[b].result, "reused")
      /\ progress[b].result.reused = TRUE

\* C13: every create call an operation issued carries the operation's own id as
\* idempotency key, so the calls of one operation agree on the key and the calls of
\* two operations never do.
C13_KeyIsOperationId ==
  \A id \in OpIds :
    /\ Len(callLog[id].keys) =
         Cardinality({i \in 1..Len(callLog[id].issued) :
                        callLog[id].issued[i] = "billing.create_invoice"})
    /\ \A i \in 1..Len(callLog[id].keys) : callLog[id].keys[i] = id
    /\ \A other \in OpIds \ {id} :
         \A i \in 1..Len(callLog[id].keys), j \in 1..Len(callLog[other].keys) :
           callLog[id].keys[i] # callLog[other].keys[j]
    /\ (Has(channel, id) /\ channel[id].dir = "req"
          /\ channel[id].msg.name = "billing.create_invoice") =>
         channel[id].msg.arguments.idempotency_key = id

C13_Witness ==
  \E a, b \in OpIds :
    /\ a # b
    /\ callLog[a].keys = << a >>
    /\ callLog[b].keys = << b >>
    /\ Has(invoices, a)
    /\ Has(invoices, b)

\* C14: at most one transport is ever created, and every routine awaits the one
\* promise that getBillingClient cached, whether it is pending, fulfilled or rejected.
C14_SingleConnection ==
  /\ transports <= 1
  /\ \A id \in DOMAIN routine :
       /\ clientPromise.state # "null"
       /\ routine[id].client = clientPromise.transport

C14_Witness ==
  /\ transports = 1
  /\ clientPromise.state = "pending"
  /\ \E a, b \in DOMAIN routine :
       /\ a # b
       /\ routine[a].pc = "awaitClient"
       /\ routine[b].pc = "awaitClient"

\* C15: a subscription whose subscriber disconnected has its interval cleared and
\* is never touched again, and the disconnect itself writes no message and changes
\* nothing of any operation.
C15_DisconnectStopsTicks ==
  [][ \A s \in DOMAIN subs :
        /\ subs[s].closed = "client" => subs'[s] = subs[s]
        /\ (subs[s].closed = "no" /\ subs'[s].closed = "client") =>
             /\ ~subs'[s].timer
             /\ subs'[s].last = subs[s].last
             /\ subs'[s].results = subs[s].results
             /\ UNCHANGED << progress, routine, channel, invoices, callLog,
                             finalizations >> ]_vars

C15_Witness ==
  \E s \in DOMAIN subs :
    /\ subs[s].closed = "client"
    /\ subs[s].last.type = "progress"
    /\ ~subs[s].last.done
    /\ IsDone(subs[s].opId)

\* C16: the payload of a result message is the result stored for the operation,
\* error payloads included, and the progress message before it shows the final log
\* with done=true.
C16_ResultMessageIsStoredResult ==
  \A s \in DOMAIN subs :
    subs[s].last.type = "result" =>
      /\ IsDone(subs[s].opId)
      /\ subs[s].last.data = progress[subs[s].opId].result
      /\ subs[s].shown = [ type |-> "progress",
                           events |-> progress[subs[s].opId].events, done |-> TRUE ]
      /\ subs[s].results = 1

C16_Witness ==
  \E s \in DOMAIN subs :
    /\ subs[s].last.type = "result"
    /\ Has(subs[s].last.data, "error")
    /\ finalizations[subs[s].opId] = << "error" >>

\* C17: an operation finalised by the success write after a fetch answer with content
\* holds the parsed payload of that fetch answer, not the payload of the create
\* answer.
C17_ResultIsFetchPayload ==
  \A id \in OpIds :
    ( /\ finalizations[id] = << "success" >>
      /\ Len(callLog[id].answers) = 2
      /\ Has(callLog[id].answers[2], "content") ) =>
      /\ progress[id].result = Parse(callLog[id].answers[2].content[1].text).value
      /\ progress[id].result # Parse(callLog[id].answers[1].content[1].text).value

C17_Witness ==
  \E id \in OpIds :
    /\ finalizations[id] = << "success" >>
    /\ Has(progress[id].result, "invoice")
    /\ progress[id].result.invoice.id = id

\* C18 (as claimed): the log of an operation whose steps all succeeded is received,
\* calling:create, completed:create, calling:fetch, completed:fetch.
C18_CallingCompletedLabels ==
  \A id \in OpIds :
    (finalizations[id] = << "success" >> /\ Has(progress[id].result, "invoice")) =>
      progress[id].events =
        << "received", "calling:create", "completed:create", "calling:fetch",
           "completed:fetch" >>

\* C18 (amended): the log of an operation whose steps all succeeded is received,
\* connecting-mcp, invoice-created, invoice-fetched; connecting-mcp is in the log
\* exactly when the create call has been issued, invoice-created only once the
\* create call was answered and invoice-fetched only once the fetch call was.
C18_ScriptLabels ==
  \A id \in DOMAIN progress :
    /\ (finalizations[id] = << "success" >> /\ Has(progress[id].result, "invoice")) =>
         progress[id].events =
           << "received", "connecting-mcp", "invoice-created", "invoice-fetched" >>
    /\ (\E i \in 1..Len(progress[id].events) : progress[id].events[i] = "connecting-mcp")
         <=> Len(callLog[id].issued) >= 1
    /\ (\E i \in 1..Len(progress[id].events) : progress[id].events[i] = "invoice-created")
         => Len(callLog[id].answers) >= 1
    /\ (\E i \in 1..Len(progress[id].events) : progress[id].events[i] = "invoice-fetched")
         => Len(callLog[id].answers) = 2

C18_Witness ==
  \E id \in OpIds :
    /\ finalizations[id] = << "success" >>
    /\ Has(progress[id].result, "invoice")
    /\ Len(progress[id].events) = 4

\* the labels of the script, in the order the routine appends them
ScriptLog == << "received", "connecting-mcp", "invoice-created", "invoice-fetched" >>

\* C19: every event log is a prefix of received, connecting-mcp, invoice-created,
\* invoice-fetched, and the log of an operation finalised by the success write is
\* the whole sequence.
C19_LogIsScriptPrefix ==
  \A id \in DOMAIN progress :
    /\ IsPrefix(progress[id].events, ScriptLog)
    /\ finalizations[id] = << "success" >> => progress[id].events = ScriptLog

C19_Witness ==
  \E a, b \in DOMAIN progress :
    /\ finalizations[a] = << "success" >>
    /\ progress[a].events = ScriptLog
    /\ finalizations[b] = << "error" >>
    /\ Len(progress[b].events) = 3

\* C20 (as claimed): the log of an operation finalised by the catch block ends with
\* an error event, a label that is none of the script's.
C20_ErrorEventLogged ==
  \A id \in DOMAIN progress :
    finalizations[id] = << "error" >> =>
      \A i \in 1..Len(ScriptLog) :
        progress[id].events[Len(progress[id].events)] # ScriptLog[i]

\* C21 (as claimed): a finalising write for an operation that is already DONE
\* leaves its status, event log and result as they were.
C21_SecondFinalizeRefused ==
  [][ \A id \in DOMAIN progress :
        (progress[id].done /\ finalizations'[id] # finalizations[id]) =>
          progress'[id] = progress[id] ]_vars

\* C22 (as claimed): no step turns an existing registry entry that is not freshly
\* created back into a PENDING entry with log ["received"].
C22_CreateNeverResets ==
  [][ \A id \in DOMAIN progress :
        progress[id] # RegistryCreate => progress'[id] # RegistryCreate ]_vars

\* C23: once the connection attempt has failed, every operation whose routine has
\* got past awaiting the client is DONE with the connection error as its payload,
\* its log is still ["received"] and it issued no tool call; and every operation
\* that waits for the client when the attempt fails gets there.
C23_ConnectFailureSurfaced ==
  /\ [](\A id \in DOMAIN routine :
          clientPromise.state = "rejected" =>
            /\ progress[id].events = << "received" >>
            /\ callLog[id].issued = << >>
            /\ ~Has(channel, id)
            /\ routine[id].pc # "awaitClient" =>
                 /\ IsDone(id)
                 /\ progress[id].result = CatchPayload(clientPromise.error))
  /\ \A id \in OpIds :
       (clientPromise.state = "rejected" /\ Has(routine, id)) ~> IsDone(id)

C23_Witness ==
  /\ clientPromise.state = "rejected"
  /\ \E a, b \in DOMAIN routine :
       /\ a # b
       /\ IsDone(a)
       /\ Has(progress[a].result, "error")
       /\ progress[a].events = << "received" >>
       /\ routine[b].pc = "awaitClient"

\* C26 (as claimed): a submission accepted after the connection attempt has failed
\* starts a new connection attempt.
C26_ReconnectsAfterFailure ==
  [][ (clientPromise.state = "rejected" /\ http' # http /\ http'.status = 202) =>
        /\ transports' = transports + 1
        /\ clientPromise'.state = "pending" ]_vars

\* an operation suspended on a tool call that has not been answered
C27_Suspended(id) ==
  /\ Has(routine, id)
  /\ routine[id].pc \in {"awaitCreate", "awaitGet"}
  /\ Has(channel, id)
  /\ channel[id].dir = "req"

\* C27: no step changes the registry entries of two operations; and while an
\* operation is suspended on an unanswered tool call, every other operation's next
\* step (resuming after the client, being served, resuming after an answer) and
\* every live subscription's tick can be taken.
C27_OperationsIndependent ==
  /\ [][ \A a, b \in DOMAIN progress :
            (a # b /\ progress'[a] # progress[a]) => progress'[b] = progress[b] ]_vars
  /\ [][ \A b \in DOMAIN progress :
            DOMAIN progress' # DOMAIN progress => progress'[b] = progress[b] ]_vars
  /\ [](\A a, b \in DOMAIN routine :
          (a # b /\ C27_Suspended(a)) =>
            /\ (routine[b].pc = "awaitClient" /\ clientPromise.state = "fulfilled")
                 => ENABLED ResumeClient(b)
            /\ (C27_Suspended(b) /\ channel[b].msg.name = "billing.create_invoice")
                 => ENABLED ServerCreate(b)
            /\ (C27_Suspended(b) /\ channel[b].msg.name = "billing.get_invoice")
                 => ENABLED ServerGet(b)
            /\ (routine[b].pc = "awaitCreate" /\ channel[b].dir = "resp")
                 => ENABLED ResumeCreate(b)
            /\ (routine[b].pc = "awaitGet" /\ channel[b].dir = "resp")
                 => ENABLED ResumeGet(b)
            /\ \A s \in DOMAIN subs : subs[s].timer => ENABLED Tick(s))

C27_Witness ==
  \E a, b \in DOMAIN routine :
    /\ a < b
    /\ C27_Suspended(a)
    /\ routine[a].pc = "awaitCreate"
    /\ finalizations[b] = << "success" >>
    /\ Has(progress[b].result, "invoice")
    /\ \E s \in DOMAIN subs :
         /\ subs[s].opId = a
         /\ subs[s].last = [ type |-> "progress", done |-> FALSE,
                             events |-> << "received", "connecting-mcp" >> ]

\* C28: a step of the publisher (a subscription opened, ticked or closed) leaves the
\* registry as it was, and the registry changes only in a step of the submit
\* handler or of a background routine.
C28_PublisherReadsOnly ==
  [][ /\ subs' # subs => progress' = progress
      /\ progress' # progress => (http' # http \/ routine' # routine) ]_vars

C28_Witness ==
  \E s \in DOMAIN subs :
    /\ subs[s].fired = "result"
    /\ subs[s].closed = "server"
    /\ Has(progress, subs[s].opId)
    /\ subs[s].last.data = progress[subs[s].opId].result
    /\ \E other \in DOMAIN progress : ~progress[other].done

\* the invoice id a create answer carries
C29_CreatedId(resp) == Parse(resp.content[1].text).value.invoice_id

\* C29: the create answer an operation got names the operation's own invoice, its
\* fetch call asks for the invoice that answer named, and the invoice in its
\* terminal success payload has the operation's own id.
C29_NoCrossedResponses ==
  \A id \in DOMAIN routine :
    /\ (Len(callLog[id].issued) = 2) =>
         /\ C29_CreatedId(callLog[id].answers[1]) = id
         /\ (Has(channel, id) /\ channel[id].dir = "req") =>
              channel[id].msg.arguments.invoice_id = C29_CreatedId(callLog[id].answers[1])
    /\ (finalizations[id] = << "success" >> /\ Has(progress[id].result, "invoice")) =>
         progress[id].result.invoice.id = id
    /\ (finalizations[id] = << "success" >> /\ Has(callLog[id].answers[2], "content")) =>
         Has(progress[id].result, "invoice")

C29_Witness ==
  \E a, b \in DOMAIN routine :
    /\ a < b
    /\ finalizations[b] = << "success" >>
    /\ Has(progress[b].result, "invoice")
    /\ progress[b].result.invoice.id = b
    /\ routine[a].pc = "awaitGet"
    /\ Has(channel, a)
    /\ channel[a].dir = "req"
    /\ channel[a].msg.arguments.invoice_id = a

\* C30: every event log starts with "received", and so does the event list of every
\* progress message written on a subscription.
C30_ReceivedFirst ==
  /\ \A id \in DOMAIN progress :
       Len(progress[id].events) >= 1 /\ progress[id].events[1] = "received"
  /\ \A s \in DOMAIN subs :
       /\ subs[s].shown.type = "progress" =>
            Len(subs[s].shown.events) >= 1 /\ subs[s].shown.events[1] = "received"
       /\ subs[s].last.type = "progress" =>
            Len(subs[s].last.events) >= 1 /\ subs[s].last.events[1] = "received"

C30_Witness ==
  \E s \in DOMAIN subs :
    /\ subs[s].last = [type |-> "progress", done |-> FALSE, events |-> << "received" >>]
    /\ subs[s].results = 0

\* C31: whenever a progress message is written on a subscription, it shows the event
\* log and the done flag the operation has at that instant, the event list of the
\* progress message before it is a prefix of its event list, and done does not go
\* from true to false.
C31_ProgressMessagesOrdered ==
  [][ \A s \in DOMAIN subs :
        (subs'[s].progressed # subs[s].progressed \/ subs'[s].shown # subs[s].shown) =>
          /\ Has(progress, subs[s].opId)
          /\ subs'[s].shown = [ type |-> "progress",
                                events |-> progress[subs[s].opId].events,
                                done |-> progress[subs[s].opId].done ]
          /\ subs[s].shown.type = "progress" =>
               /\ IsPrefix(subs[s].shown.events, subs'[s].shown.events)
               /\ subs[s].shown.done => subs'[s].shown.done ]_vars

C31_Witness ==
  \E s \in DOMAIN subs :
    /\ subs[s].progressed = 2
    /\ subs[s].shown.done
    /\ Len(subs[s].shown.events) = 4
    /\ subs[s].results = 1

\* C32 (as claimed): the log of an operation whose create call was rejected or
\* answered without a content item never contains "invoice-created".
C32_NoCompletionEventAfterFailure ==
  \A id \in DOMAIN progress :
    ( /\ Len(callLog[id].answers) >= 1
      /\ \/ ~callLog[id].answers[1].ok
         \/ ~Has(callLog[id].answers[1], "content")
         \/ Len(callLog[id].answers[1].content) = 0 ) =>
      \A i \in 1..Len(progress[id].events) : progress[id].events[i] # "invoice-created"

\* C33: an operation has issued nothing, the create call, or the create call and
\* then the fetch call; the fetch call only once the create call was answered; a
\* call only over an established connection; and a DONE operation has no call in
\* flight and issues no further call.
C33_ScriptRunsOnce ==
  /\ [](\A id \in OpIds :
          /\ callLog[id].issued \in
               { << >>, << "billing.create_invoice" >>,
                 << "billing.create_invoice", "billing.get_invoice" >> }
          /\ Len(callLog[id].issued) = 2 => Len(callLog[id].answers) >= 1
          /\ Len(callLog[id].issued) >= 1 => clientPromise.state = "fulfilled"
          /\ IsDone(id) => (~Has(channel, id) /\ routine[id].pc = "ended"))
  /\ [][ \A id \in OpIds : IsDone(id) => callLog'[id].issued = callLog[id].issued ]_vars

C33_Witness ==
  \E a, b \in OpIds :
    /\ IsDone(a)
    /\ callLog[a].issued = << "billing.create_invoice", "billing.get_invoice" >>
    /\ finalizations[a] = << "error" >>
    /\ IsDone(b)
    /\ callLog[b].issued = << "billing.create_invoice" >>

\* the invoice a create call's arguments describe
C34_InvoiceOf(args) ==
  [ amount |-> args.amount, currency |-> args.currency,
    customer_email |-> args.customer_email, status |-> "draft" ]

\* the position of the first accepted create call made under key k before call i, or
\* 0 if there is none
C34_FirstCreate(k, i) ==
  IF \E h \in 1..(i - 1) : IsCreate(toolLog[h]) /\ toolLog[h].arguments.idempotency_key = k
    THEN CHOOSE h \in 1..(i - 1) :
           /\ IsCreate(toolLog[h])
           /\ toolLog[h].arguments.idempotency_key = k
           /\ \A g \in 1..(h - 1) :
                ~(IsCreate(toolLog[g]) /\ toolLog[g].arguments.idempotency_key = k)
    ELSE 0

\* C34: a get_invoice call is answered NOT_FOUND exactly when no invoice was created
\* under its id before, otherwise with the fields the first create call under that
\* id stored, status draft, and the id; and it leaves the store as it was.
C34_GetInvoiceAnswers ==
  \A i \in 1..Len(toolLog) :
    toolLog[i].name = "billing.get_invoice" =>
      LET k == toolLog[i].arguments.invoice_id
          h == C34_FirstCreate(k, i)
      IN  /\ toolLog[i].after = toolLog[i].before
          /\ h = 0 => ToolAnswer(toolLog[i]) = [error |-> "NOT_FOUND"]
          /\ h # 0 =>
               ToolAnswer(toolLog[i]) =
                 [invoice |-> [ id |-> k,
                                amount |-> toolLog[h].arguments.amount,
                                currency |-> toolLog[h].arguments.currency,
                                customer_email |-> toolLog[h].arguments.customer_email,
                                status |-> "draft" ]]

C34_Witness ==
  /\ Len(toolLog) = 3
  /\ IsCreate(toolLog[1])
  /\ toolLog[2].name = "billing.get_invoice"
  /\ toolLog[2].arguments.invoice_id = toolLog[1].arguments.idempotency_key
  /\ Has(ToolAnswer(toolLog[2]), "invoice")
  /\ toolLog[3].name = "billing.get_invoice"
  /\ Has(ToolAnswer(toolLog[3]), "error")

\* a create answer that names an invoice
C37_Created(resp) ==
  /\ resp.ok
  /\ Has(resp, "content")
  /\ Len(resp.content) >= 1
  /\ Parse(resp.content[1].text).ok
  /\ Has(Parse(resp.content[1].text).value, "invoice_id")

\* C37: every stored invoice is the one its operation's create call described, the
\* invoice a create answer named is in the store from then on, and no operation
\* ends with the NOT_FOUND payload.
C37_FetchFindsInvoice ==
  /\ \A k \in DOMAIN invoices :
       /\ Has(routine, k)
       /\ invoices[k] = C34_InvoiceOf(routine[k].data)
  /\ \A id \in DOMAIN routine :
       /\ (Len(callLog[id].answers) >= 1 /\ C37_Created(callLog[id].answers[1])) =>
            Has(invoices, C29_CreatedId(callLog[id].answers[1]))
       /\ IsDone(id) => progress[id].result # [error |-> "NOT_FOUND"]

C37_Witness ==
  \E a, b \in DOMAIN routine :
    /\ a # b
    /\ finalizations[a] = << "success" >>
    /\ progress[a].result = [invoice |-> [id |-> a] @@ invoices[a]]
    /\ Has(invoices, b)
    /\ finalizations[b] = << "error" >>

\* C38: an accepted create call under a key that is already in use, whose amount,
\* currency or address differs from what is stored, is answered with the key and
\* reused=true and no error, and leaves the store, with the first call's fields
\* under that key, as it was.
C38_MismatchIsReused ==
  \A j \in 1..Len(toolLog) :
    ( /\ IsCreate(toolLog[j])
      /\ C34_FirstCreate(toolLog[j].arguments.idempotency_key, j) # 0
      /\ C34_InvoiceOf(toolLog[j].arguments) #
           C34_InvoiceOf(toolLog[C34_FirstCreate(toolLog[j].arguments.idempotency_key, j)].arguments) ) =>
      LET k == toolLog[j].arguments.idempotency_key
          h == C34_FirstCreate(k, j)
      IN  /\ ToolAnswer(toolLog[j]) = [invoice_id |-> k, reused |-> TRUE]
          /\ toolLog[j].after = toolLog[j].before
          /\ toolLog[j].after[k] = C34_InvoiceOf(toolLog[h].arguments)
          /\ invoices[k] = C34_InvoiceOf(toolLog[h].arguments)

C38_Witness ==
  /\ Len(toolLog) >= 2
  /\ IsCreate(toolLog[1])
  /\ IsCreate(toolLog[2])
  /\ toolLog[1].arguments.idempotency_key = toolLog[2].arguments.idempotency_key
  /\ toolLog[1].arguments.amount = 100
  /\ toolLog[2].arguments.amount = 0
  /\ toolLog[1].arguments.currency # toolLog[2].arguments.currency
  /\ toolLog[1].arguments.customer_email # toolLog[2].arguments.customer_email
  /\ invoices[toolLog[1].arguments.idempotency_key].amount = 100

\* C39: every stored invoice id is the id of an operation in the registry, which
\* sent that id as its key once; no operation sent more than one key; so there
\* are no more invoices than operations.
C39_InvoicesWithinOperations ==
  /\ DOMAIN invoices \subseteq DOMAIN progress
  /\ \A k \in DOMAIN invoices : callLog[k].keys = << k >>
  /\ \A id \in OpIds : Len(callLog[id].keys) <= 1
  /\ Cardinality(DOMAIN invoices) <= Cardinality(DOMAIN progress)

C39_Witness ==
  /\ Cardinality(DOMAIN invoices) = 1
  /\ Cardinality(DOMAIN progress) = 2
  /\ \A id \in DOMAIN progress : progress[id].done

\* C35: the step that writes a result message on a subscription finds the operation
\* DONE and writes, right before the result, one progress message with done=true and
\* the operation's final log; the progress message written before that step, if
\* any, had done=false.
C35_ResultFollowsFinalProgress ==
  [][ \A s \in DOMAIN subs :
        subs'[s].results # subs[s].results =>
          /\ IsDone(subs[s].opId)
          /\ progress' = progress
          /\ subs'[s].last.type = "result"
          /\ subs'[s].shown = [ type |-> "progress",
                                events |-> progress[subs[s].opId].events,
                                done |-> TRUE ]
          /\ subs[s].progressed < MaxCount => subs'[s].progressed = subs[s].progressed + 1
          /\ subs[s].shown.type = "progress" => ~subs[s].shown.done ]_vars

C35_Witness ==
  \E s \in DOMAIN subs :
    /\ subs[s].results = 1
    /\ subs[s].progressed = 1
    /\ subs[s].last.type = "result"
    /\ subs[s].shown.done
    /\ subs[s].shown.events = progress[subs[s].opId].events

\* C36: an operation whose log contains "invoice-fetched" is DONE, and no progress
\* message shows "invoice-fetched" with done=false.
C36_FetchedImpliesDone ==
  /\ \A id \in DOMAIN progress :
       (\E i \in 1..Len(progress[id].events) : progress[id].events[i] = "invoice-fetched")
         => progress[id].done
  /\ \A s \in DOMAIN subs :
       ( /\ subs[s].shown.type = "progress"
         /\ \E i \in 1..Len(subs[s].shown.events) :
              subs[s].shown.events[i] = "invoice-fetched" ) => subs[s].shown.done

C36_Witness ==
  \E id \in DOMAIN progress :
    /\ progress[id].events[Len(progress[id].events)] = "invoice-fetched"
    /\ finalizations[id] = << "error" >>
    /\ \E s \in DOMAIN subs : subs[s].opId = id /\ subs[s].results = 1

\* C40: no step changes two subscriptions; a subscription has its interval exactly
\* while it is open, whatever became of the others, and then its tick can fire; the
\* tick of a live subscription to a DONE operation writes that subscription's
\* result message; and a subscription gets at most one, which closes it.
C40_SubscriptionsIndependent ==
  /\ [][ \A s, t \in DOMAIN subs :
            (s # t /\ subs'[s] # subs[s]) => subs'[t] = subs[t] ]_vars
  /\ [](\A s \in DOMAIN subs :
          /\ subs[s].timer <=> subs[s].closed = "no"
          /\ subs[s].timer => ENABLED Tick(s)
          /\ (subs[s].timer /\ IsDone(subs[s].opId)) =>
               /\ TickStep(subs[s], progress).results = 1
               /\ TickStep(subs[s], progress).last.data = progress[subs[s].opId].result
          /\ subs[s].results <= 1
          /\ subs[s].results = 1 <=> subs[s].closed = "server")

C40_Witness ==
  \E s, t \in DOMAIN subs :
    /\ s # t
    /\ subs[s].opId = subs[t].opId
    /\ subs[s].closed = "client"
    /\ subs[s].progressed = 1
    /\ subs[t].results = 1
    /\ subs[t].progressed = 2
    /\ subs[t].last.data = progress[subs[t].opId].result

====
